---- MODULE Spec2Model ----
(***************************************************************************)
(* Model of the Switch Pro Controller USB gadget emulator                  *)
(* (rust/src/main.rs): the configfs lifecycle of UsbGadget (new,           *)
(* setup_configfs, disable_gadget, remove_hid_function, Drop), the         *)
(* transport of SwitchProEmulator, ControllerState and the command loop of *)
(* main.                                                                   *)
(*                                                                         *)
(* The filesystem is modelled with the semantics of the std::fs calls the  *)
(* code makes: every call either takes effect as a whole or fails and      *)
(* changes nothing; any call can fail (fail = TRUE is the injected I/O     *)
(* error), and a call also fails when the filesystem state forbids it      *)
(* (symlink over an existing path, write below a missing directory).       *)
(***************************************************************************)
EXTENDS Integers, Sequences, FiniteSets, TLC

(* ---------------- bounds ---------------- *)

\* number of variables of the API client that can hold a UsbGadget
NumInstances == 2

\* the client of ControllerState holds at most this many buttons pressed at once
MaxPressed == 2

\* the ControllerState calls the state client makes in one run
MaxCalls == 3

Instances == 1..NumInstances

(* ---------------- the configfs tree ---------------- *)

\* gadget_path = /sys/kernel/config/usb_gadget/switch_pro; paths are relative to it
GadgetPath == "."
HidFunctionPath == "configs/c.1/hid.usb0"
UdcPath == "UDC"
FunctionPath == "functions/hid.usb0"

Paths ==
  { GadgetPath, "idVendor", "idProduct", "bcdDevice", "bcdUSB", "bDeviceClass",
    "bDeviceSubClass", "bDeviceProtocol", "bMaxPacketSize0",
    "strings", "strings/0x409", "strings/0x409/manufacturer", "strings/0x409/product",
    "functions", FunctionPath, "functions/hid.usb0/protocol",
    "functions/hid.usb0/subclass", "functions/hid.usb0/report_length",
    "functions/hid.usb0/report_desc",
    "configs", "configs/c.1", "configs/c.1/MaxPower", HidFunctionPath, UdcPath }

\* what a path holds: nothing, a directory, the symlink to functions/hid.usb0,
\* or a file with its content
Absent == "<absent>"
Dir == "<dir>"
Link == "<symlink -> functions/hid.usb0>"

Parent(p) ==
  CASE p \in {"strings/0x409/manufacturer", "strings/0x409/product"} -> "strings/0x409"
    [] p \in {"functions/hid.usb0/protocol", "functions/hid.usb0/subclass",
              "functions/hid.usb0/report_length", "functions/hid.usb0/report_desc"}
         -> FunctionPath
    [] p \in {"configs/c.1/MaxPower", HidFunctionPath} -> "configs/c.1"
    [] p = "strings/0x409" -> "strings"
    [] p = FunctionPath -> "functions"
    [] p = "configs/c.1" -> "configs"
    [] OTHER -> GadgetPath

\* p and the directories above it, up to the gadget directory
RECURSIVE Ancestors(_)
Ancestors(p) == IF p = GadgetPath THEN {GadgetPath} ELSE {p} \cup Ancestors(Parent(p))

EmptyFs == [p \in Paths |-> Absent]

\* a directory, or the symlink resolved to an existing directory
IsDirAt(f, p) == f[p] = Dir \/ (f[p] = Link /\ f[FunctionPath] = Dir)

\* Path::exists: follows symlinks, so a dangling link does not exist
path_exists(f, p) == f[p] # Absent /\ (f[p] = Link => f[FunctionPath] # Absent)

\* The result of one filesystem call: ok, the filesystem after it, and did = 1
\* (one call was made).
FsResult(ok, f) == [ok |-> ok, fs |-> f, did |-> 1]

\* fs::create_dir_all: creates p and every missing directory above it
fs_create_dir_all(f, p, fail) ==
  IF fail \/ \E q \in Ancestors(p) : f[q] \notin {Absent, Dir}
  THEN FsResult(FALSE, f)
  ELSE FsResult(TRUE, [q \in Paths |-> IF q \in Ancestors(p) THEN Dir ELSE f[q]])

\* fs::write: creates or replaces the file p with data
fs_write(f, p, data, fail) ==
  IF fail \/ ~IsDirAt(f, Parent(p)) \/ f[p] \in {Dir, Link}
  THEN FsResult(FALSE, f)
  ELSE FsResult(TRUE, [f EXCEPT ![p] = data])

\* std::os::unix::fs::symlink(function_path, p): fails when p already exists
fs_symlink(f, p, fail) ==
  IF fail \/ ~IsDirAt(f, Parent(p)) \/ f[p] # Absent
  THEN FsResult(FALSE, f)
  ELSE FsResult(TRUE, [f EXCEPT ![p] = Link])

\* fs::remove_file: unlinks a file or a symlink
fs_remove_file(f, p, fail) ==
  IF fail \/ f[p] \in {Absent, Dir}
  THEN FsResult(FALSE, f)
  ELSE FsResult(TRUE, [f EXCEPT ![p] = Absent])

(* ---------------- formatting of the ids ---------------- *)

SWITCH_PRO_VID == 1406
SWITCH_PRO_PID == 8201

HexDigit(d) == SubSeq("0123456789abcdef", d + 1, d + 1)

RECURSIVE LowerHex(_)
LowerHex(n) == IF n < 16 THEN HexDigit(n) ELSE LowerHex(n \div 16) \o HexDigit(n % 16)

RECURSIVE ZeroPad(_, _)
ZeroPad(digits, width) == IF Len(digits) >= width THEN digits ELSE ZeroPad("0" \o digits, width)

\* format!("{:#04x}", n): "0x" and lower-case hex digits, zero-padded to a total
\* width of 4 characters, the prefix included
FormatAltHex04(n) == "0x" \o ZeroPad(LowerHex(n), 2)

(* ---------------- UsbGadget ---------------- *)

\* the udc argument of UsbGadget::new; main passes "fe800000.usb"
MainUdc == "fe800000.usb"
UdcNames == {MainUdc, "dummy_udc.0"}

\* setup_configfs after its two clean-up calls: the filesystem calls in program
\* order. op is the call, path its target, data what is written.
St(op, path, data) == [op |-> op, path |-> path, data |-> data]

\* setup_configfs with the UDC write moved before the symlink
SetupStepsBindEarly(udc) ==
  << St("create_dir_all", GadgetPath, ""),
     St("write", "idVendor", FormatAltHex04(SWITCH_PRO_VID)),
     St("write", "idProduct", FormatAltHex04(SWITCH_PRO_PID)),
     St("write", "bcdDevice", "0x0100"),
     St("write", "bcdUSB", "0x0200"),
     St("write", "bDeviceClass", "0x00"),
     St("write", "bDeviceSubClass", "0x00"),
     St("write", "bDeviceProtocol", "0x00"),
     St("write", "bMaxPacketSize0", "64"),
     St("create_dir_all", "strings/0x409", ""),
     St("write", "strings/0x409/manufacturer", "Nintendo"),
     St("write", "strings/0x409/product", "Pro Controller"),
     St("create_dir_all", FunctionPath, ""),
     St("write", "functions/hid.usb0/protocol", "0"),
     St("write", "functions/hid.usb0/subclass", "0"),
     St("write", "functions/hid.usb0/report_length", "64"),
     St("write", "functions/hid.usb0/report_desc", "<report_desc bytes>"),
     St("create_dir_all", "configs/c.1", ""),
     St("write", "configs/c.1/MaxPower", "500"),
     St("write", UdcPath, udc),
     St("symlink", HidFunctionPath, "") >>

SetupSteps(udc) ==
  << St("create_dir_all", GadgetPath, ""),
     St("write", "idVendor", FormatAltHex04(SWITCH_PRO_VID)),
     St("write", "idProduct", FormatAltHex04(SWITCH_PRO_PID)),
     St("write", "bcdDevice", "0x0100"),
     St("write", "bcdUSB", "0x0200"),
     St("write", "bDeviceClass", "0x00"),
     St("write", "bDeviceSubClass", "0x00"),
     St("write", "bDeviceProtocol", "0x00"),
     St("write", "bMaxPacketSize0", "64"),
     St("create_dir_all", "strings/0x409", ""),
     St("write", "strings/0x409/manufacturer", "Nintendo"),
     St("write", "strings/0x409/product", "Pro Controller"),
     St("create_dir_all", FunctionPath, ""),
     St("write", "functions/hid.usb0/protocol", "0"),
     St("write", "functions/hid.usb0/subclass", "0"),
     St("write", "functions/hid.usb0/report_length", "64"),
     St("write", "functions/hid.usb0/report_desc", "<report_desc bytes>"),
     St("create_dir_all", "configs/c.1", ""),
     St("write", "configs/c.1/MaxPower", "500"),
     St("symlink", HidFunctionPath, ""),
     St("write", UdcPath, udc) >>

\* the context with_context attaches to the error of a filesystem call: the
\* text of its format! and the paths it prints
NoError == [text |-> "", paths |-> {}]
StepContext(k, s) ==
  CASE s.op = "create_dir_all" ->
         [text |-> IF k = 1 THEN "Failed while creating directory"
                   ELSE "Failed when creating directory", paths |-> {s.path}]
    [] s.op = "write" -> [text |-> "Failed when writing into", paths |-> {s.path}]
    [] s.op = "symlink" -> [text |-> "Failed when symlinking", paths |-> {FunctionPath, s.path}]
DisableContext == [text |-> "Failed when writing into", paths |-> {UdcPath}]
RemoveContext == [text |-> "Failed when removing", paths |-> {HidFunctionPath}]

\* one filesystem call of setup_configfs
RunStep(f, s, fail) ==
  CASE s.op = "create_dir_all" -> fs_create_dir_all(f, s.path, fail)
    [] s.op = "write" -> fs_write(f, s.path, s.data, fail)
    [] s.op = "symlink" -> fs_symlink(f, s.path, fail)

\* disable_gadget without its exists() test: it always writes
disable_gadget_unchecked(f, fail) == fs_write(f, UdcPath, "", fail)

\* disable_gadget: unbind by writing the empty string, when UDC exists
disable_gadget(f, fail) ==
  IF path_exists(f, UdcPath)
  THEN fs_write(f, UdcPath, "", fail)
  ELSE [ok |-> TRUE, fs |-> f, did |-> 0]

\* remove_hid_function that never unlinks
remove_hid_function_skips(f, fail) == [ok |-> TRUE, fs |-> f, did |-> 0]

\* remove_hid_function: unlink configs/c.1/hid.usb0, when it exists
remove_hid_function(f, fail) ==
  IF path_exists(f, HidFunctionPath)
  THEN fs_remove_file(f, HidFunctionPath, fail)
  ELSE [ok |-> TRUE, fs |-> f, did |-> 0]

\* kmod insert_module: EEXIST when the module is already loaded
insert_module(mods, m, fail) ==
  IF fail THEN "err" ELSE IF m \in mods THEN "EEXIST" ELSE "ok"

\* load_kernel_module: an already loaded module is a success
load_kernel_module(mods, m, fail) ==
  LET r == insert_module(mods, m, fail)
  IN  [ok |-> r \in {"ok", "EEXIST"}, mods |-> IF r = "ok" THEN mods \cup {m} ELSE mods]

\* new with slf leaked on the error path (as with mem::forget or a gadget built
\* only after setup_configfs succeeded)
LeaksSlfOnError == FALSE

\* UsbGadget::new owns slf when setup_configfs fails, so the early return drops it
DropsSlfOnError == TRUE

\* the gadget is bound to a controller: UDC holds a controller name
Bound(f) == f[UdcPath] \notin {Absent, ""}

(* ---------------- state ---------------- *)

VARIABLES
  fs,        \* the configfs tree below gadget_path
  modules,   \* the loaded kernel modules
  slot,      \* slot[i]: the udc of the UsbGadget the client's variable i holds, or NoGadget
  call,      \* the UsbGadget call in progress (new or drop) or, once its phase
             \* is "returned", the call that returned last
  prev,      \* function and result of the call before the one in call
  owner,     \* the instance whose new returned Ok last, 0 before any
  mpc,       \* main: the program counter
  handle,    \* SwitchProEmulator.handle: "None" or "Some"
  state,     \* main and the emulator client: the ControllerState
  io,        \* the last transport call and what it did
  exit,      \* main: how the process ended
  teardowns, \* main: completed drops of the gadget that new returned
  trail      \* the calls made last: the command main read, or the last two
             \* ControllerState calls of the state client

vars == << fs, modules, slot, call, prev, owner, mpc, handle, state, io, exit, teardowns,
          trail >>

mainVars == << mpc, handle, state, io, exit, teardowns, trail >>

NoGadget == "none"

\* fn: "new" or "drop"; phase: where the call is; idx: the step of setup_configfs;
\* nfail: injected failures so far (0, 1, 2 = two or more); failedPhase and
\* failedIdx: where setup_configfs or new failed; fsBefore: the tree when the
\* call began; did and logged: filesystem calls made and errors printed by Drop;
\* result and dropped: how the call returned and whether Drop ran in it; err:
\* the context of the error setup_configfs returned
NoCall ==
  [fn |-> "none", inst |-> 0, udc |-> "", phase |-> "returned", idx |-> 0,
   nfail |-> 0, failedPhase |-> "", failedIdx |-> 0, fsBefore |-> EmptyFs,
   did |-> 0, logged |-> 0, result |-> "", dropped |-> FALSE, err |-> NoError]

Idle == call.phase = "returned"

StartNew(i, u) ==
  [NoCall EXCEPT !.fn = "new", !.inst = i, !.udc = u, !.phase = "load1",
                 !.fsBefore = fs]

StartDrop(i, u) ==
  [NoCall EXCEPT !.fn = "drop", !.inst = i, !.udc = u, !.phase = "drop_disable",
                 !.fsBefore = fs]

\* the number of injected failures of a call, counted as 0, 1 or "2 or more"
CountFail(c, fail) == IF fail /\ c.nfail < 2 THEN c.nfail + 1 ELSE c.nfail

\* the call c goes on
Continue(c) ==
  /\ call' = c
  /\ UNCHANGED << prev, slot, owner >>

\* the call c returns result; dropped says whether Drop ran in it
Return(c, result, dropped) ==
  /\ call' = [c EXCEPT !.phase = "returned", !.result = result, !.dropped = dropped]
  /\ prev' = prev
  /\ slot' = [slot EXCEPT ![c.inst] = IF result = "ok" THEN c.udc ELSE NoGadget]
  /\ owner' = IF result = "ok" THEN c.inst ELSE owner

\* the error of step k swallowed (let _ = in place of ?): setup_configfs goes
\* on with the next step
SetupFailsSwallowed(c, ph, k) ==
  LET c1 == [c EXCEPT !.failedPhase = ph, !.failedIdx = k,
                      !.err = CASE ph = "disable" -> DisableContext
                                [] ph = "remove" -> RemoveContext
                                [] ph = "step" -> StepContext(k, SetupSteps(c.udc)[k])]
  IN  IF ph = "step" /\ k < Len(SetupSteps(c.udc))
      THEN Continue([c1 EXCEPT !.idx = k + 1])
      ELSE Continue([c1 EXCEPT !.phase = "drop_disable"])

\* a call of setup_configfs failed at phase ph (step k): new returns the error,
\* and slf is dropped on the way out
SetupFails(c, ph, k) ==
  LET c1 == [c EXCEPT !.failedPhase = ph, !.failedIdx = k,
                      !.err = CASE ph = "disable" -> DisableContext
                                [] ph = "remove" -> RemoveContext
                                [] ph = "step" -> StepContext(k, SetupSteps(c.udc)[k])]
  IN  IF DropsSlfOnError
      THEN Continue([c1 EXCEPT !.phase = "drop_disable"])
      ELSE Return(c1, "err", FALSE)

(* ---------------- the steps of UsbGadget::new and of Drop ---------------- *)

\* new: load_kernel_module("libcomposite"), then load_kernel_module("usb_f_hid")
LoadModule ==
  /\ mpc # "killed"
  /\ call.phase \in {"load1", "load2"}
  /\ \E fail \in BOOLEAN :
       LET m == IF call.phase = "load1" THEN "libcomposite" ELSE "usb_f_hid"
           r == load_kernel_module(modules, m, fail)
           c == [call EXCEPT !.nfail = CountFail(call, fail)]
       IN  /\ modules' = r.mods
           /\ fs' = fs
           /\ IF r.ok
              THEN Continue([c EXCEPT !.phase = IF call.phase = "load1" THEN "load2"
                                                ELSE "disable"])
              ELSE Return([c EXCEPT !.failedPhase = call.phase], "err", FALSE)
  /\ UNCHANGED mainVars

\* setup_configfs: self.disable_gadget()?
PreDisable ==
  /\ mpc # "killed"
  /\ call.phase = "disable"
  /\ \E fail \in BOOLEAN :
       LET r == disable_gadget(fs, fail)
           c == [call EXCEPT !.nfail = CountFail(call, fail /\ r.did = 1)]
       IN  /\ fs' = r.fs
           /\ IF r.ok THEN Continue([c EXCEPT !.phase = "remove"])
              ELSE SetupFails(c, "disable", 0)
  /\ UNCHANGED << modules, mainVars >>

\* setup_configfs: self.remove_hid_function()?
PreRemove ==
  /\ mpc # "killed"
  /\ call.phase = "remove"
  /\ \E fail \in BOOLEAN :
       LET r == remove_hid_function(fs, fail)
           c == [call EXCEPT !.nfail = CountFail(call, fail /\ r.did = 1)]
       IN  /\ fs' = r.fs
           /\ IF r.ok THEN Continue([c EXCEPT !.phase = "step", !.idx = 1])
              ELSE SetupFails(c, "remove", 0)
  /\ UNCHANGED << modules, mainVars >>

\* setup_configfs: the next filesystem call, with its ? operator; after the
\* last one setup_configfs and new return Ok
SetupStep ==
  /\ mpc # "killed"
  /\ call.phase = "step"
  /\ \E fail \in BOOLEAN :
       LET steps == SetupSteps(call.udc)
           r == RunStep(fs, steps[call.idx], fail)
           c == [call EXCEPT !.nfail = CountFail(call, fail)]
       IN  /\ fs' = r.fs
           /\ IF ~r.ok THEN SetupFails(c, "step", call.idx)
              ELSE IF call.idx = Len(steps) THEN Return(c, "ok", FALSE)
              ELSE Continue([c EXCEPT !.idx = call.idx + 1])
  /\ UNCHANGED << modules, mainVars >>

\* Drop: disable_gadget, its error printed and otherwise ignored
DropDisable ==
  /\ mpc # "killed"
  /\ call.phase = "drop_disable"
  /\ \E fail \in BOOLEAN :
       LET r == disable_gadget(fs, fail)
       IN  /\ fs' = r.fs
           /\ Continue([call EXCEPT !.phase = "drop_remove",
                                    !.nfail = CountFail(call, fail /\ r.did = 1),
                                    !.did = call.did + r.did,
                                    !.logged = call.logged + (IF r.ok THEN 0 ELSE 1)])
  /\ UNCHANGED << modules, mainVars >>

\* Drop: remove_hid_function, its error printed and otherwise ignored; then the
\* call returns: new with its error, drop with nothing
DropRemove ==
  /\ mpc # "killed"
  /\ call.phase = "drop_remove"
  /\ \E fail \in BOOLEAN :
       LET r == remove_hid_function(fs, fail)
           c == [call EXCEPT !.nfail = CountFail(call, fail /\ r.did = 1),
                             !.did = call.did + r.did,
                             !.logged = call.logged + (IF r.ok THEN 0 ELSE 1)]
       IN  /\ fs' = r.fs
           /\ Return(c, IF call.fn = "new" THEN "err" ELSE "dropped", TRUE)
  /\ UNCHANGED << modules, mainVars >>

(* ---------------- a client of UsbGadget ---------------- *)

\* ControllerState::default(). A u32 is held as the set of its bits that are 1
\* (bit 0 the lowest), since the integers of the checker are 32 bits signed.
DefaultState == [buttons |-> {}, left_stick |-> [x |-> 128, y |-> 128],
                 right_stick |-> [x |-> 128, y |-> 128]]

\* no transport call yet. op: "send" or "receive"; handle: the handle it ran
\* with; result: "ok" or the error; usb: whether an interrupt transfer was
\* issued; ep: its endpoint address; data: the report written or the bytes returned
NoIo == [op |-> "none", handle |-> "", result |-> "", usb |-> FALSE, ep |-> 0, data |-> << >>]

\* one recorded call: op is "cmd" with the trimmed, lowercased line main read,
\* "read_err", "post", or the ControllerState method called with its button;
\* pre is the ControllerState before it
TrailCall(op, arg, pre) == [op |-> op, arg |-> arg, pre |-> pre]

\* n: the ControllerState calls of the state client so far; calls: the calls
\* made last, the latest first
NoTrail == [n |-> 0, calls |-> << >>]

\* main: the trail after one call of main
Trail(op, arg, pre) == [n |-> 0, calls |-> << TrailCall(op, arg, pre) >>]

InitGadget ==
  /\ fs = EmptyFs
  /\ modules = {}
  /\ slot = [i \in Instances |-> NoGadget]
  /\ call = NoCall
  /\ prev = [fn |-> "none", result |-> ""]
  /\ owner = 0

Init ==
  /\ InitGadget
  /\ mpc = "none"
  /\ handle = "None"
  /\ state = DefaultState
  /\ io = NoIo
  /\ exit = "running"
  /\ teardowns = 0
  /\ trail = NoTrail

\* let g_i = UsbGadget::new(u)
ApiNew(i, u) ==
  /\ mpc = "none"
  /\ Idle
  /\ slot[i] = NoGadget
  /\ call' = StartNew(i, u)
  /\ prev' = [fn |-> call.fn, result |-> call.result]
  /\ UNCHANGED << fs, modules, slot, owner, mainVars >>

\* drop(g_i)
ApiDrop(i) ==
  /\ mpc = "none"
  /\ Idle
  /\ slot[i] # NoGadget
  /\ call' = StartDrop(i, slot[i])
  /\ prev' = [fn |-> call.fn, result |-> call.result]
  /\ UNCHANGED << fs, modules, slot, owner, mainVars >>

New == \E i \in Instances, u \in UdcNames : ApiNew(i, u)
Drop == \E i \in Instances : ApiDrop(i)

Next == New \/ Drop \/ LoadModule \/ PreDisable \/ PreRemove \/ SetupStep
          \/ DropDisable \/ DropRemove

Spec == Init /\ [][Next]_vars

(* ---------------- ControllerState ---------------- *)

\* enum Button with its discriminants
ButtonNames ==
  {"Y", "X", "B", "A", "SrR", "SlR", "R", "ZR", "MINUS", "PLUS", "RSTICK", "LSTICK",
   "HOME", "CAPTURE", "DOWN", "UP", "RIGHT", "LEFT", "SrL", "SlL", "L", "ZL"}

\* enum Button without its gap: DOWN = 14 up to ZL = 21
ButtonIndexDense(b) ==
  CASE b = "Y" -> 0 [] b = "X" -> 1 [] b = "B" -> 2 [] b = "A" -> 3
    [] b = "SrR" -> 4 [] b = "SlR" -> 5 [] b = "R" -> 6 [] b = "ZR" -> 7
    [] b = "MINUS" -> 8 [] b = "PLUS" -> 9 [] b = "RSTICK" -> 10 [] b = "LSTICK" -> 11
    [] b = "HOME" -> 12 [] b = "CAPTURE" -> 13
    [] b = "DOWN" -> 14 [] b = "UP" -> 15 [] b = "RIGHT" -> 16 [] b = "LEFT" -> 17
    [] b = "SrL" -> 18 [] b = "SlL" -> 19 [] b = "L" -> 20 [] b = "ZL" -> 21

ButtonIndex(b) ==
  CASE b = "Y" -> 0 [] b = "X" -> 1 [] b = "B" -> 2 [] b = "A" -> 3
    [] b = "SrR" -> 4 [] b = "SlR" -> 5 [] b = "R" -> 6 [] b = "ZR" -> 7
    [] b = "MINUS" -> 8 [] b = "PLUS" -> 9 [] b = "RSTICK" -> 10 [] b = "LSTICK" -> 11
    [] b = "HOME" -> 12 [] b = "CAPTURE" -> 13
    [] b = "DOWN" -> 16 [] b = "UP" -> 17 [] b = "RIGHT" -> 18 [] b = "LEFT" -> 19
    [] b = "SrL" -> 20 [] b = "SlL" -> 21 [] b = "L" -> 22 [] b = "ZL" -> 23

\* the bit operations on a u32 held as its set of 1 bits
AllBits == 0..31
BitOr(a, b) == a \cup b
BitAnd(a, b) == a \cap b
BitNot(a) == AllBits \ a
\* 1 << n
ShlOne(n) == {n % 32}
\* a >> n
Shr(a, n) == {i - n : i \in {j \in a : j >= n}}
\* the constant 0xFF
MaskFF == 0..7

\* button as u32, button as u16
AsU32(n) == n
AsU16(n) == n % 65536

RECURSIVE BitsValue(_)
BitsValue(a) == IF a = {} THEN 0 ELSE LET i == CHOOSE j \in a : TRUE
                                      IN  2^i + BitsValue(a \ {i})

\* (v) as u8 of a u32: the value of its low eight bits
AsU8(a) == BitsValue(a \cap (0..7))

\* press_button with ^= in place of |=: a second press releases the button
press_button_toggle(s, b) ==
  LET bit == ShlOne(AsU32(ButtonIndex(b)))
  IN  [s EXCEPT !.buttons = (s.buttons \ bit) \cup (bit \ s.buttons)]

press_button(s, b) ==
  [s EXCEPT !.buttons = BitOr(s.buttons, ShlOne(AsU32(ButtonIndex(b))))]

\* release_button with the mask built in sixteen bits: !(1u16 << b) widened to u32
release_button_u16_mask(s, b) ==
  [s EXCEPT !.buttons = BitAnd(s.buttons, (0..15) \ {AsU16(ButtonIndex(b)) % 16})]

release_button(s, b) ==
  [s EXCEPT !.buttons = BitAnd(s.buttons, BitNot(ShlOne(AsU16(ButtonIndex(b)))))]

set_left_stick(s, x, y) == [s EXCEPT !.left_stick = [x |-> x, y |-> y]]

set_right_stick(s, x, y) == [s EXCEPT !.right_stick = [x |-> x, y |-> y]]

\* set_left_stick_angle(45.0, 0.5), the only call of it: both components are
\* (128.0 + 0.70710678 * 127.0 * 0.5) as u8 = 172.9 as u8 = 172
set_left_stick_angle_45_half(s) == set_left_stick(s, 172, 172)

(* ---------------- SwitchProEmulator ---------------- *)

EndpointIn == 129
EndpointOut == 1

\* SwitchProEmulator::new: no handle
EmulatorNewHandle == "None"

\* the report array with buttons >> 16 in its third byte
ReportHighByte(st) ==
  << 0,
     AsU8(BitAnd(st.buttons, MaskFF)),
     AsU8(BitAnd(Shr(st.buttons, 16), MaskFF)),
     st.left_stick.x, st.left_stick.y, st.right_stick.x, st.right_stick.y >>

\* the report array of send_input_report
Report(st) ==
  << 0,
     AsU8(BitAnd(st.buttons, MaskFF)),
     AsU8(BitAnd(Shr(st.buttons, 8), MaskFF)),
     st.left_stick.x, st.left_stick.y, st.right_stick.x, st.right_stick.y >>

\* what write_interrupt can answer
WriteOutcomes == {"ok", "timeout", "io_error"}

\* send_input_report: with a handle, write_interrupt on self.endpoint_out and ?
\* on its result; without one, Ok(()) at once
send_input_report(h, st, outcome) ==
  IF h = "Some"
  THEN [op |-> "send", handle |-> h, result |-> outcome, usb |-> TRUE,
        ep |-> EndpointOut, data |-> Report(st)]
  ELSE [op |-> "send", handle |-> h, result |-> "ok", usb |-> FALSE,
        ep |-> 0, data |-> << >>]

\* what read_interrupt can answer: Ok(size) with the bytes the host sent, or an error
ReadOutcomes ==
  { [kind |-> "ok", bytes |-> << >>], [kind |-> "ok", bytes |-> << 16, 1 >>],
    [kind |-> "timeout", bytes |-> << >>], [kind |-> "io_error", bytes |-> << >>] }

\* vec![0u8; 64] after read_interrupt stored bytes at its start
FilledBuf(bytes) == [i \in 1..64 |-> IF i <= Len(bytes) THEN bytes[i] ELSE 0]

\* receive_output_report: with a handle, read_interrupt on self.endpoint_in, ?
\* on its result and truncate to the size read; without one, Ok(buf) untouched
receive_output_report(h, outcome) ==
  IF h = "Some"
  THEN [op |-> "receive", handle |-> h, result |-> outcome.kind, usb |-> TRUE,
        ep |-> EndpointIn,
        data |-> IF outcome.kind = "ok"
                 THEN SubSeq(FilledBuf(outcome.bytes), 1, Len(outcome.bytes))
                 ELSE << >>]
  ELSE [op |-> "receive", handle |-> h, result |-> "ok", usb |-> FALSE,
        ep |-> 0, data |-> FilledBuf(<< >>)]

(* ---------------- main ---------------- *)

UpperLetters == "ABCDEFGHIJKLMNOPQRSTUVWXYZ"
LowerLetters == "abcdefghijklmnopqrstuvwxyz"

Char(str, i) == SubSeq(str, i, i)

\* char::to_lowercase on the ASCII letters
LowerChar(c) ==
  IF \E i \in 1..26 : Char(UpperLetters, i) = c
  THEN Char(LowerLetters, CHOOSE i \in 1..26 : Char(UpperLetters, i) = c)
  ELSE c

RECURSIVE to_lowercase(_)
to_lowercase(str) ==
  IF str = "" THEN "" ELSE LowerChar(Char(str, 1)) \o to_lowercase(SubSeq(str, 2, Len(str)))

IsWhite(c) == c \in {" ", "\n", "\t", "\r"}

\* str::trim: white space removed at both ends
RECURSIVE trim(_)
trim(str) ==
  IF str = "" THEN ""
  ELSE IF IsWhite(Char(str, 1)) THEN trim(SubSeq(str, 2, Len(str)))
  ELSE IF IsWhite(Char(str, Len(str))) THEN trim(SubSeq(str, 1, Len(str) - 1))
  ELSE str

\* what read_line can leave in input: a line, or "" at the end of the input
Lines ==
  { "a\n", "B\n", "x\n", " y \n", "l\n", "r\n", "zl\n", "ZR\n", "minus\n", "plus\n",
    "lstick\n", "rstick\n", "home\n", "capture\n", "up\n", "down\n", "left\n",
    "right\n", "center\n", "quit\n", "Quit", "jump\n", "\n", "" }

\* the match of the command loop: the new state, for every command but quit
Dispatch(cmd, st) ==
  CASE cmd = "a" -> press_button(st, "A")
    [] cmd = "b" -> press_button(st, "B")
    [] cmd = "x" -> press_button(st, "X")
    [] cmd = "y" -> press_button(st, "Y")
    [] cmd = "l" -> press_button(st, "L")
    [] cmd = "r" -> press_button(st, "R")
    [] cmd = "zl" -> press_button(st, "ZL")
    [] cmd = "zr" -> press_button(st, "ZR")
    [] cmd = "minus" -> press_button(st, "MINUS")
    [] cmd = "plus" -> press_button(st, "PLUS")
    [] cmd = "lstick" -> press_button(st, "LSTICK")
    [] cmd = "rstick" -> press_button(st, "RSTICK")
    [] cmd = "home" -> press_button(st, "HOME")
    [] cmd = "capture" -> press_button(st, "CAPTURE")
    [] cmd = "up" -> set_left_stick(st, 128, 0)
    [] cmd = "down" -> set_left_stick(st, 128, 255)
    [] cmd = "left" -> set_left_stick(st, 0, 128)
    [] cmd = "right" -> set_left_stick(st, 255, 128)
    [] cmd = "center" -> set_left_stick(st, 128, 128)
    [] OTHER -> st

\* the states the four example blocks after the loop send
PostState(k, st) ==
  CASE k = 1 -> set_left_stick(st, 255, 128)
    [] k = 2 -> set_left_stick_angle_45_half(st)
    [] k = 3 -> press_button(press_button(press_button(DefaultState, "L"), "R"), "A")
    [] k = 4 -> press_button(press_button(DefaultState, "HOME"), "CAPTURE")

\* main returns: its locals are dropped, the emulator and with it the UsbGadget
MainReturn(how) ==
  /\ mpc' = "drop"
  /\ exit' = how
  /\ call' = StartDrop(1, slot[1])
  /\ prev' = [fn |-> call.fn, result |-> call.result]

\* let usb_gadget = UsbGadget::new("fe800000.usb")
MainStart ==
  /\ mpc = "start"
  /\ mpc' = "new"
  /\ call' = StartNew(1, MainUdc)
  /\ prev' = [fn |-> call.fn, result |-> call.result]
  /\ UNCHANGED << fs, modules, slot, owner, handle, state, io, exit, teardowns, trail >>

\* the ? after UsbGadget::new, then SwitchProEmulator::new and the first state
MainAfterNew ==
  /\ mpc = "new" /\ Idle
  /\ IF call.result = "ok"
     THEN /\ mpc' = "read"
          /\ handle' = EmulatorNewHandle
          /\ state' = DefaultState
          /\ exit' = exit
     ELSE /\ mpc' = "exited"
          /\ exit' = "err"
          /\ UNCHANGED << handle, state >>
  /\ UNCHANGED << fs, modules, slot, call, prev, owner, io, teardowns, trail >>

\* while let Ok(_) = read_line(&mut input), then the match on the command
MainRead ==
  /\ mpc = "read"
  /\ \/ \* read_line fails: the loop ends
        /\ mpc' = "post1"
        /\ state' = state
        /\ trail' = Trail("read_err", "", state)
     \/ \E line \in Lines :
          LET cmd == to_lowercase(trim(line))
          IN  /\ trail' = Trail("cmd", cmd, state)
              /\ IF cmd = "quit"
                 THEN mpc' = "post1" /\ state' = state
                 ELSE mpc' = "send" /\ state' = Dispatch(cmd, state)
  /\ UNCHANGED << fs, modules, slot, call, prev, owner, handle, io, exit, teardowns >>

\* emulator.send_input_report(&state)?, then the reset of state and input
MainSend ==
  /\ mpc = "send"
  /\ \E outcome \in WriteOutcomes :
       LET r == send_input_report(handle, state, outcome)
       IN  /\ io' = r
           /\ IF r.result = "ok"
              THEN /\ mpc' = "read"
                   /\ state' = DefaultState
                   /\ UNCHANGED << call, prev, exit >>
              ELSE /\ MainReturn("err")
                   /\ state' = state
  /\ UNCHANGED << fs, modules, slot, owner, handle, teardowns, trail >>

\* the example blocks after the loop, each ending in send_input_report(&state)?;
\* after the last one main returns Ok(())
MainPost ==
  /\ mpc \in {"post1", "post2", "post3", "post4"}
  /\ \E outcome \in WriteOutcomes :
       LET k == CASE mpc = "post1" -> 1 [] mpc = "post2" -> 2 [] mpc = "post3" -> 3
                  [] mpc = "post4" -> 4
           st == PostState(k, state)
           r == send_input_report(handle, st, outcome)
       IN  /\ io' = r
           /\ state' = st
           /\ IF r.result # "ok" THEN MainReturn("err")
              ELSE IF k = 4 THEN MainReturn("ok")
              ELSE /\ mpc' = (CASE k = 1 -> "post2" [] k = 2 -> "post3" [] k = 3 -> "post4")
                   /\ UNCHANGED << call, prev, exit >>
  /\ trail' = Trail("post", "", state)
  /\ UNCHANGED << fs, modules, slot, owner, handle, teardowns >>

\* the drop of the gadget has run: the process ends
MainExit ==
  /\ mpc = "drop" /\ Idle
  /\ mpc' = "exited"
  /\ teardowns' = teardowns + 1
  /\ UNCHANGED << fs, modules, slot, call, prev, owner, handle, state, io, exit, trail >>

\* SIGINT or SIGTERM: main installs no handler, so the process ends at once
\* and nothing is dropped
MainSignal ==
  /\ mpc \in {"new", "read", "send", "post1", "post2", "post3", "post4", "drop"}
  /\ mpc' = "killed"
  /\ exit' = "signal"
  /\ UNCHANGED << fs, modules, slot, call, prev, owner, handle, state, io, teardowns, trail >>

InitMain ==
  /\ InitGadget
  /\ mpc = "start"
  /\ handle = "None"
  /\ state = DefaultState
  /\ io = NoIo
  /\ exit = "running"
  /\ teardowns = 0
  /\ trail = NoTrail

NextMain ==
  \/ MainStart \/ MainAfterNew \/ MainRead \/ MainSend \/ MainPost \/ MainExit
  \/ MainSignal
  \/ LoadModule \/ PreDisable \/ PreRemove \/ SetupStep \/ DropDisable \/ DropRemove

SpecMain == InitMain /\ [][NextMain]_vars

\* The endpoint handle is opened: the transport of the design opens the
\* gadget's interrupt endpoints once the gadget is Active.
OpenHandle ==
  /\ mpc \in {"read", "send", "emu"}
  /\ handle = "None"
  /\ handle' = "Some"
  /\ UNCHANGED << fs, modules, slot, call, prev, owner, mpc, state, io, exit, teardowns,
                   trail >>

NextMainOpen == NextMain \/ OpenHandle

SpecMainOpen == InitMain /\ [][NextMainOpen]_vars

(* ---------------- a client of SwitchProEmulator and ControllerState -------- *)

\* the stick positions the client sets
StickInputs == { << 128, 128 >>, << 255, 128 >>, << 0, 255 >> }

InitEmu ==
  /\ InitGadget
  /\ mpc = "emu"
  /\ handle = EmulatorNewHandle
  /\ state = DefaultState
  /\ io = NoIo
  /\ exit = "running"
  /\ teardowns = 0
  /\ trail = NoTrail

emuFrame == << fs, modules, slot, call, prev, owner, mpc, exit, teardowns, trail >>

\* state.press_button(b); io keeps a transport call only until the state changes
EmuPress ==
  /\ mpc = "emu"
  /\ Cardinality(state.buttons) < MaxPressed
  /\ \E b \in ButtonNames : state' = press_button(state, b)
  /\ io' = NoIo
  /\ UNCHANGED << emuFrame, handle >>

\* state.release_button(b)
EmuRelease ==
  /\ mpc = "emu"
  /\ \E b \in ButtonNames : state' = release_button(state, b)
  /\ io' = NoIo
  /\ UNCHANGED << emuFrame, handle >>

\* state.set_left_stick(x, y)
EmuSetLeft ==
  /\ mpc = "emu"
  /\ \E xy \in StickInputs : state' = set_left_stick(state, xy[1], xy[2])
  /\ io' = NoIo
  /\ UNCHANGED << emuFrame, handle >>

\* state.set_right_stick(x, y)
EmuSetRight ==
  /\ mpc = "emu"
  /\ \E xy \in StickInputs : state' = set_right_stick(state, xy[1], xy[2])
  /\ io' = NoIo
  /\ UNCHANGED << emuFrame, handle >>

\* emulator.send_input_report(&state)
EmuSend ==
  /\ mpc = "emu"
  /\ \E outcome \in WriteOutcomes : io' = send_input_report(handle, state, outcome)
  /\ UNCHANGED << emuFrame, handle, state >>

\* emulator.receive_output_report()
EmuReceive ==
  /\ mpc = "emu"
  /\ \E outcome \in ReadOutcomes : io' = receive_output_report(handle, outcome)
  /\ UNCHANGED << emuFrame, handle, state >>

NextEmu ==
  EmuPress \/ EmuRelease \/ EmuSetLeft \/ EmuSetRight \/ EmuSend \/ EmuReceive
    \/ OpenHandle

SpecEmu == InitEmu /\ [][NextEmu]_vars

(* ---------------- a client of ControllerState alone ---------------- *)

InitState ==
  /\ InitGadget
  /\ mpc = "state"
  /\ handle = EmulatorNewHandle
  /\ state = DefaultState
  /\ io = NoIo
  /\ exit = "running"
  /\ teardowns = 0
  /\ trail = NoTrail

stateFrame == << fs, modules, slot, call, prev, owner, mpc, handle, io, exit, teardowns >>

\* the trail after the state client called op(arg) in the current state
Called(op, arg) ==
  [n |-> trail.n + 1,
   calls |-> IF trail.calls = << >>
             THEN << TrailCall(op, arg, state) >>
             ELSE << TrailCall(op, arg, state), trail.calls[1] >>]

\* state.press_button(b)
StPress ==
  /\ mpc = "state" /\ trail.n < MaxCalls
  /\ \E b \in ButtonNames :
       /\ state' = press_button(state, b)
       /\ trail' = Called("press_button", b)
  /\ UNCHANGED stateFrame

\* state.release_button(b)
StRelease ==
  /\ mpc = "state" /\ trail.n < MaxCalls
  /\ \E b \in ButtonNames :
       /\ state' = release_button(state, b)
       /\ trail' = Called("release_button", b)
  /\ UNCHANGED stateFrame

\* state.set_left_stick(x, y)
StSetLeft ==
  /\ mpc = "state" /\ trail.n < MaxCalls
  /\ \E xy \in StickInputs : state' = set_left_stick(state, xy[1], xy[2])
  /\ trail' = Called("set_left_stick", "")
  /\ UNCHANGED stateFrame

\* state.set_right_stick(x, y)
StSetRight ==
  /\ mpc = "state" /\ trail.n < MaxCalls
  /\ \E xy \in StickInputs : state' = set_right_stick(state, xy[1], xy[2])
  /\ trail' = Called("set_right_stick", "")
  /\ UNCHANGED stateFrame

NextState == StPress \/ StRelease \/ StSetLeft \/ StSetRight

SpecState == InitState /\ [][NextState]_vars

(* ---------------- properties of the UsbGadget lifecycle ---------------- *)

Returned(fn) == call.fn = fn /\ call.phase = "returned"

InDrop == call.phase \in {"drop_disable", "drop_remove"}

\* C1: in every teardown the symlink configs/c.1/hid.usb0 is removed only when
\* the gadget is no longer bound: no step removes the symlink in a state where
\* UDC still holds a controller name, also when the unbind write failed.
C1_UnlinkOnlyAfterUnbind ==
  [][(fs[HidFunctionPath] # Absent /\ fs'[HidFunctionPath] = Absent) => ~Bound(fs)]_vars

\* the state of the tree that a step of setup_configfs leaves at its path
StepDone(f, s) ==
  CASE s.op = "create_dir_all" -> f[s.path] = Dir
    [] s.op = "write" -> f[s.path] = s.data
    [] s.op = "symlink" -> f[s.path] = Link

\* one valid bound gadget: every directory, attribute and the symlink are there
\* with the values of provisioning, and UDC holds udc
ValidBound(f, udc) ==
  /\ \A p \in Paths : f[p] # Absent
  /\ \A k \in 1..Len(SetupSteps(udc)) : StepDone(f, SetupSteps(udc)[k])
  /\ f[UdcPath] = udc
  /\ f[HidFunctionPath] = Link

\* a provisioned gadget after teardown: the whole tree, unbound, without the symlink
TornDown(f) ==
  /\ \A p \in Paths \ {HidFunctionPath} : f[p] # Absent
  /\ f[UdcPath] = ""
  /\ f[HidFunctionPath] = Absent

\* C2: a call of UsbGadget::new in which no filesystem or module call fails
\* returns Ok and leaves exactly one valid gadget bound to the chosen
\* controller, whatever the tree held before (nothing, or the bound gadget of
\* the call before); when setup_configfs starts to create the tree, the
\* previous gadget is unbound and its symlink is gone.
C2_ReprovisionIdempotent ==
  /\ (Returned("new") /\ call.nfail = 0)
       => (call.result = "ok" /\ ValidBound(fs, call.udc) /\ slot[call.inst] = call.udc)
  /\ (call.fn = "new" /\ call.phase = "step" /\ call.idx = 1)
       => (~Bound(fs) /\ fs[HidFunctionPath] = Absent)

\* C2 witness: new has returned Ok twice in a row, the second time over the
\* bound gadget of the first
C2_Witness ==
  /\ Returned("new") /\ call.result = "ok" /\ call.nfail = 0
  /\ prev = [fn |-> "new", result |-> "ok"]
  /\ Bound(call.fsBefore) /\ call.fsBefore[HidFunctionPath] = Link
  /\ ValidBound(fs, call.udc)

\* a call of new returned an error because a filesystem call of provisioning
\* (a directory creation, an attribute write, the symlink or the UDC write) failed
ProvisioningFailed == Returned("new") /\ call.result = "err" /\ call.failedPhase = "step"

Group(p) ==
  CASE p \in {GadgetPath, "idVendor", "idProduct", "bcdDevice", "bcdUSB", "bDeviceClass",
              "bDeviceSubClass", "bDeviceProtocol", "bMaxPacketSize0"} -> 1
    [] p \in {"strings", "strings/0x409", "strings/0x409/manufacturer",
              "strings/0x409/product"} -> 2
    [] p \in {"functions", FunctionPath, "functions/hid.usb0/protocol",
              "functions/hid.usb0/subclass", "functions/hid.usb0/report_length",
              "functions/hid.usb0/report_desc"} -> 3
    [] p \in {"configs", "configs/c.1", "configs/c.1/MaxPower"} -> 4
    [] p = HidFunctionPath -> 5
    [] p = UdcPath -> 6

GroupPresent(f, g) == \A p \in Paths : Group(p) = g => f[p] # Absent

StepSucceeds ==
  /\ call.phase = "step"
  /\ \/ call'.phase = "step" /\ call'.idx = call.idx + 1
     \/ call'.phase = "returned" /\ call'.result = "ok"

\* C7: every step of provisioning that takes effect finds everything of the
\* earlier groups in place (device descriptors, then strings, then the HID
\* function, then MaxPower, then the symlink), the gadget is not bound while
\* setup_configfs is still creating the tree, and the gadget becomes bound only
\* by the step that finds all of them there.
C7_FixedOrder ==
  [][/\ StepSucceeds =>
          /\ \A g \in 1..(Group(SetupSteps(call.udc)[call.idx].path) - 1) : GroupPresent(fs, g)
          /\ ~Bound(fs)
     /\ (Bound(fs') /\ ~Bound(fs)) =>
          /\ StepSucceeds
          /\ \A g \in 1..5 : GroupPresent(fs, g)
          /\ ValidBound(fs', call.udc)]_vars

\* C7 witness: new has returned Ok on a tree that was empty before
C7_Witness ==
  /\ Returned("new") /\ call.result = "ok"
  /\ call.fsBefore = EmptyFs
  /\ ValidBound(fs, call.udc)

\* C9: while another instance that provisioned the gadget last is alive, the
\* drop of an instance neither unbinds the gadget nor removes the symlink.
C9_DropLeavesOtherInstance ==
  [][(/\ call.fn = "drop" /\ InDrop
      /\ owner # 0 /\ owner # call.inst /\ slot[owner] # NoGadget)
       => (fs'[UdcPath] = fs[UdcPath] /\ fs'[HidFunctionPath] = fs[HidFunctionPath])]_vars

\* C10: the teardown of Drop on a tree that has neither UDC nor the symlink makes
\* no filesystem call, prints no error and leaves the tree unchanged.
C10_TeardownOnNothing ==
  [][(InDrop /\ fs[UdcPath] = Absent /\ fs[HidFunctionPath] = Absent)
       => (fs' = fs /\ call'.did = call.did /\ call'.logged = call.logged)]_vars

\* C10 witness: Drop has run to its end on a tree without UDC and without the
\* symlink, with no filesystem call and no error
C10_Witness ==
  /\ call.phase = "returned" /\ call.dropped
  /\ fs[UdcPath] = Absent /\ fs[HidFunctionPath] = Absent
  /\ call.did = 0 /\ call.logged = 0

(* ---------------- properties of main and of the transport ---------------- *)

\* C5: on every exit of the process after UsbGadget::new returned Ok (return
\* of main with Ok or with an error, or death by a signal) the teardown of the
\* gadget has run exactly once.
C5_TeardownOnceOnEveryExit ==
  (mpc \in {"exited", "killed"} /\ owner = 1) => teardowns = 1

\* C6: send_input_report and receive_output_report called while handle is None
\* return an error; they never return Ok without an interrupt transfer.
C6_TransportFailsFastWithoutHandle ==
  (io.op \in {"send", "receive"} /\ io.handle = "None") => (io.result # "ok" /\ ~io.usb)

\* C8: a timeout of send_input_report does not end the command loop: main
\* leaves the loop on a failed send only when the failure is no timeout.
C8_TimeoutKeepsLoopRunning ==
  [][(mpc = "send" /\ mpc' = "drop") => io'.result # "timeout"]_vars

(* ---------------- the HID report descriptor ---------------- *)

\* report_desc of setup_configfs, byte by byte
ReportDesc ==
  << 5, 1,  9, 5,  161, 1,  21, 0,  37, 1,  53, 0,  69, 1,
     117, 1,  149, 16,  5, 9,  25, 1,  41, 16,  129, 2,
     5, 1,  37, 7,  70, 59, 1,  117, 4,  149, 1,  101, 20,  9, 57,  129, 66,
     101, 0,  149, 1,  129, 1,
     38, 255, 0,  70, 255, 0,  9, 48,  9, 49,  9, 50,  9, 53,
     117, 8,  149, 4,  129, 2,
     192 >>

\* what fs::write stores for report_desc in the modelled tree
ReportDescFile == "<report_desc bytes>"

\* the short items of the HID report descriptor grammar: the low two bits of
\* the prefix give the number of data bytes (3 stands for 4), the rest the item
ItemDataLen(prefix) == IF prefix % 4 = 3 THEN 4 ELSE prefix % 4
ItemTag(prefix) == prefix - (prefix % 4)
TagUsagePage == 4
TagReportSize == 116
TagReportCount == 148
TagInput == 128
TagReportId == 132

\* the little-endian value of the data bytes i+1..i+n
RECURSIVE ItemValue(_, _, _)
ItemValue(desc, i, n) ==
  IF n = 0 THEN 0 ELSE desc[i + 1] + 256 * ItemValue(desc, i + 1, n - 1)

\* a host's reading of the descriptor from item i on: g holds the global items
\* Usage Page, Report Size and Report Count and whether a Report ID item was
\* met, acc the Input fields found so far, each with its bit offset in the
\* report data; the result is the Input fields and whether reports carry an ID
RECURSIVE ParseItems(_, _, _, _)
ParseItems(desc, i, g, acc) ==
  IF i > Len(desc) THEN [fields |-> acc, id |-> g.id]
  ELSE LET n == ItemDataLen(desc[i])
           tag == ItemTag(desc[i])
           v == ItemValue(desc, i, n)
           g2 == CASE tag = TagUsagePage -> [g EXCEPT !.page = v]
                   [] tag = TagReportSize -> [g EXCEPT !.size = v]
                   [] tag = TagReportCount -> [g EXCEPT !.count = v]
                   [] tag = TagReportId -> [g EXCEPT !.id = TRUE]
                   [] tag = TagInput -> [g EXCEPT !.offset = g.offset + g.size * g.count]
                   [] OTHER -> g
           acc2 == IF tag = TagInput
                   THEN Append(acc, [page |-> g.page, size |-> g.size, count |-> g.count,
                                     const |-> v % 2 = 1, offset |-> g.offset])
                   ELSE acc
       IN  ParseItems(desc, i + 1 + n, g2, acc2)

NoGlobals == [page |-> 0, size |-> 0, count |-> 0, id |-> FALSE, offset |-> 0]

\* the Input fields report_desc declares, in order
InputFields == ParseItems(ReportDesc, 1, NoGlobals, << >>).fields

\* whether report_desc declares a Report ID, which then is the first byte of
\* every report, before the fields
DeclaresReportId == ParseItems(ReportDesc, 1, NoGlobals, << >>).id

RECURSIVE FieldBits(_)
FieldBits(fields) ==
  IF fields = << >> THEN 0
  ELSE fields[1].size * fields[1].count + FieldBits(Tail(fields))

\* the width in bits of the input report the descriptor declares
InputBits == FieldBits(InputFields)

Digits == "0123456789"

\* the number a decimal text stands for
RECURSIVE ParseDecimal(_)
ParseDecimal(str) ==
  IF str = "" THEN 0
  ELSE 10 * ParseDecimal(SubSeq(str, 1, Len(str) - 1))
       + (CHOOSE d \in 0..9 : Char(Digits, d + 1) = Char(str, Len(str)))

ReportLengthPath == "functions/hid.usb0/report_length"
ReportDescPath == "functions/hid.usb0/report_desc"

\* the HID function has its report_length and its report_desc
Described == fs[ReportLengthPath] \notin {Absent, Dir, Link} /\ fs[ReportDescPath] = ReportDescFile

(* ---------------- properties of the report and of ControllerState ---------- *)

\* C11: once the HID function carries report_length and report_desc, the report
\* send_input_report builds from the ControllerState is as long as report_length
\* says, and report_length is the width of the input report that report_desc
\* declares, in bytes.
C11_ReportLengthConsistent ==
  Described =>
    /\ Len(Report(state)) = ParseDecimal(fs[ReportLengthPath])
    /\ ParseDecimal(fs[ReportLengthPath]) * 8 = InputBits

\* bit i of the report data, counted as a host counts them: from the least
\* significant bit of the first byte on, the byte of the Report ID skipped
\* when the descriptor declares one
ReportBit(report, i) ==
  LET k == i + (IF DeclaresReportId THEN 8 ELSE 0)
  IN  (report[(k \div 8) + 1] \div 2^(k % 8)) % 2 = 1

\* the Input fields of report_desc that hold data: the buttons, the hat
\* switch and the axes
ButtonsField == InputFields[1]
AxesField == InputFields[4]

\* what a host reads from a report by report_desc: the set of pressed buttons
\* and the values of the four axes
HostButtons(report) ==
  {j \in 0..(ButtonsField.count - 1) : ReportBit(report, ButtonsField.offset + j)}
HostAxes(report) ==
  [k \in 1..AxesField.count |->
     BitsValue({j \in 0..(AxesField.size - 1) :
                  ReportBit(report, AxesField.offset + (k - 1) * AxesField.size + j)})]

\* C12: the report send_input_report builds is [0x00, buttons bits 0..7,
\* buttons bits 8..15, left_stick.x, left_stick.y, right_stick.x,
\* right_stick.y], the default state with only A pressed gives
\* [0, 8, 0, 128, 128, 128, 128], and a host that reads the report by
\* report_desc finds the buttons bits 0..15 in the buttons field and the four
\* stick bytes in the four axes.
C12_ReportLayoutMatchesDescriptor ==
  io.op = "send" =>
    LET report == Report(state)
    IN  /\ report = << 0, BitsValue(state.buttons \cap (0..7)),
                       BitsValue({i - 8 : i \in state.buttons \cap (8..15)}),
                       state.left_stick.x, state.left_stick.y,
                       state.right_stick.x, state.right_stick.y >>
        /\ state = press_button(DefaultState, "A") => report = << 0, 8, 0, 128, 128, 128, 128 >>
        /\ HostButtons(report) = state.buttons \cap (0..15)
        /\ HostAxes(report) = << state.left_stick.x, state.left_stick.y,
                                 state.right_stick.x, state.right_stick.y >>

\* the state client called press_button(b) and then release_button(b)
PressRelease ==
  /\ Len(trail.calls) = 2
  /\ trail.calls[1].op = "release_button" /\ trail.calls[2].op = "press_button"
  /\ trail.calls[1].arg = trail.calls[2].arg

\* the state before the press of PressRelease, and whether its button was pressed in it
BeforePress == trail.calls[2].pre
WasPressed(call_) == ButtonIndex(call_.arg) \in call_.pre.buttons

\* C13 as claimed: press_button(b) followed by release_button(b) gives back
\* the ControllerState from before the press, buttons and sticks, also when b was
\* pressed in it.
C13_PressReleaseRestores == PressRelease => state = BeforePress

\* C13 amended: press_button(b) followed by release_button(b) leaves both
\* sticks as they were and the buttons as they were with the bit of b cleared:
\* the state from before the press when b was not pressed in it.
C13_PressReleaseClears ==
  PressRelease =>
    /\ state.left_stick = BeforePress.left_stick
    /\ state.right_stick = BeforePress.right_stick
    /\ state.buttons = BeforePress.buttons \ {ButtonIndex(trail.calls[1].arg)}
    /\ ~WasPressed(trail.calls[2]) => state = BeforePress

\* C13 witness: press and release of a button that was not pressed, with
\* another button held, gave the state from before
C13_Witness ==
  /\ PressRelease /\ ~WasPressed(trail.calls[2])
  /\ BeforePress.buttons # {}
  /\ state = BeforePress

\* the call the state client made last
LastCall == trail.calls[1]

\* C14: press_button of a button that is pressed and release_button of a
\* button that is not pressed leave the ControllerState as it was, so that two
\* presses of one button in a row give what the first press gave.
C14_PressReleaseIdempotent ==
  trail.n > 0 =>
    /\ (LastCall.op = "press_button" /\ WasPressed(LastCall)) => state = LastCall.pre
    /\ (LastCall.op = "release_button" /\ ~WasPressed(LastCall)) => state = LastCall.pre
    /\ (/\ Len(trail.calls) = 2
        /\ LastCall.op = "press_button" /\ trail.calls[2].op = "press_button"
        /\ LastCall.arg = trail.calls[2].arg) => state = LastCall.pre

\* C14 witness: the second of two presses of one button in a row, with the
\* button still pressed after it
C14_Witness ==
  /\ Len(trail.calls) = 2
  /\ LastCall.op = "press_button" /\ trail.calls[2].op = "press_button"
  /\ LastCall.arg = trail.calls[2].arg
  /\ ButtonIndex(LastCall.arg) \in state.buttons
  /\ state = LastCall.pre

(* ---------------- properties of the transport: the two directions -------- *)

\* C15: receive_output_report answers a read that timed out with Ok and an
\* empty sequence, never with an error, and the bytes it returns are bytes that
\* were received: without a transfer it returns no byte at all.
C15_ReceiveEmptyOnNoData ==
  io.op = "receive" =>
    /\ io.result # "timeout"
    /\ ~io.usb => io.data = << >>

\* C16: send_input_report writes to the IN endpoint 0x81 and
\* receive_output_report reads from the OUT endpoint 0x01; no transfer writes
\* to 0x01 or reads from 0x81.
C16_EndpointDirections ==
  io.usb =>
    /\ io.op = "send" => io.ep = EndpointIn
    /\ io.op = "receive" => io.ep = EndpointOut

(* ---------------- properties of a failing setup_configfs ---------------- *)

\* setup_configfs has failed in the call of new in progress
SetupFailed == call.fn = "new" /\ call.failedPhase \in {"disable", "remove", "step"}

\* the path of the filesystem call that failed
FailedPath(c) ==
  CASE c.failedPhase = "disable" -> UdcPath
    [] c.failedPhase = "remove" -> HidFunctionPath
    [] c.failedPhase = "step" -> SetupSteps(c.udc)[c.failedIdx].path

\* C17: a filesystem call of setup_configfs that fails ends setup_configfs
\* there: its error names the path of that call, new returns
\* the error, and from then on no step of provisioning runs: no directory or
\* attribute is written, the symlink is not created and the gadget is not bound
\* (the teardown of Drop alone may still unbind and unlink).
C17_FailureAbortsProvisioning ==
  [][/\ (call.fn = "new" /\ ~Idle /\ ~SetupFailed /\ call'.failedPhase \in {"disable", "remove", "step"})
          => /\ FailedPath(call') \in call'.err.paths
             /\ call'.failedPhase = "step" => call'.failedIdx = call.idx
     /\ (SetupFailed /\ ~Idle)
          => /\ call'.idx = call.idx /\ call'.err = call.err
             /\ call'.phase \in {"drop_disable", "drop_remove", "returned"}
             /\ \A p \in Paths \ {UdcPath, HidFunctionPath} : fs'[p] = fs[p]
             /\ fs'[HidFunctionPath] \in {fs[HidFunctionPath], Absent}
             /\ fs'[UdcPath] \in {fs[UdcPath], ""}
             /\ call'.phase = "returned" => call'.result = "err"]_vars

\* C17 witness: new has returned the error of the create_dir_all of
\* functions/hid.usb0 on a tree that was empty, the steps after it not run
C17_Witness ==
  /\ Returned("new") /\ call.result = "err"
  /\ call.failedPhase = "step" /\ SetupSteps(call.udc)[call.failedIdx].path = FunctionPath
  /\ call.err.paths = {FunctionPath}
  /\ call.fsBefore = EmptyFs
  /\ fs[FunctionPath] = Absent /\ fs[HidFunctionPath] = Absent /\ fs[UdcPath] = Absent
  /\ fs["strings/0x409/product"] = "Pro Controller"

(* ---------------- properties of the command loop ---------------- *)

\* the commands the match of the loop knows, quit aside
Commands ==
  {"a", "b", "x", "y", "l", "r", "zl", "zr", "minus", "plus", "lstick", "rstick",
   "home", "capture", "up", "down", "left", "right", "center"}

\* at most one button pressed or one stick off centre
OneChange(st) ==
  /\ Cardinality(st.buttons) <= 1
  /\ st.right_stick = DefaultState.right_stick
  /\ st.buttons = {} \/ st.left_stick = DefaultState.left_stick

\* the command main read last
LastCommand == trail.calls[1].arg

\* C18: every line read in the loop acts on a fresh default state; a known
\* command makes at most one change to it and is followed by one
\* send_input_report, whose report has at most one button set or one stick off
\* centre; an unknown command changes no state and is followed by no send; quit
\* leaves the loop without a send.
C18_OneCommandOneReport ==
  [][/\ (mpc = "read" /\ mpc' \in {"send", "post1"} /\ trail'.calls[1].op = "cmd")
          => /\ state = DefaultState
             /\ OneChange(state')
             /\ trail'.calls[1].arg \in Commands => mpc' = "send"
             /\ trail'.calls[1].arg \notin Commands => (state' = state /\ mpc' # "send")
             /\ trail'.calls[1].arg = "quit" => (mpc' = "post1" /\ io' = io)
     /\ (mpc = "send" /\ mpc' \in {"read", "drop"})
          => /\ LastCommand \in Commands
             /\ io'.op = "send"
             /\ OneChange(state)]_vars

(* ---------------- properties of the button bits ---------------- *)

\* C19: in every ControllerState the state client reaches from the default by
\* press_button, release_button, set_left_stick and set_right_stick, bits 14
\* and 15 of buttons are 0 and buttons is below 2^24.
C19_ReservedBitsClear ==
  /\ 14 \notin state.buttons /\ 15 \notin state.buttons
  /\ state.buttons \subseteq 0..23

\* C19 witness: the buttons on both sides of the gap, CAPTURE (13) and DOWN
\* (16), are pressed
C19_Witness ==
  /\ trail.n >= 2
  /\ {13, 16} \subseteq state.buttons

\* the buttons whose bit is above the two button bytes of the report
HighButtons == {b \in ButtonNames : ButtonIndex(b) \in 16..23}

\* C20: the report is a function of buttons bits 0..15 and of the two sticks:
\* press_button and release_button of a button with index 16..23 leave the
\* report as it was, and the commands l and zl give the report of the default
\* state.
C20_HighButtonsNotReported ==
  /\ Report(state) = Report([state EXCEPT !.buttons = state.buttons \cap (0..15)])
  /\ (/\ trail.n > 0 /\ LastCall.op \in {"press_button", "release_button"}
      /\ LastCall.arg \in HighButtons) => Report(state) = Report(LastCall.pre)
  /\ Report(Dispatch("l", DefaultState)) = Report(DefaultState)
  /\ Report(Dispatch("zl", DefaultState)) = Report(DefaultState)

\* C20 witness: L was pressed while A was held, and the report is the one
\* from before the press
C20_Witness ==
  /\ trail.n > 0 /\ LastCall.op = "press_button" /\ LastCall.arg = "L"
  /\ ~WasPressed(LastCall)
  /\ ButtonIndex("A") \in state.buttons /\ ButtonIndex("L") \in state.buttons
  /\ Report(state) = Report(LastCall.pre)

====
